---- MODULE Spec2Model ----
(***************************************************************************)
(* Route query path of the name server (ClientRequestProcessor) together   *)
(* with the registry it reads: the topology store (RouteInfoManager), the  *)
(* order-topic overlay (KVConfigManager) and the readiness flag.           *)
(*                                                                         *)
(* get_route_info_by_topic is modelled per handler, one step per access to *)
(* shared state, so that handlers running on different worker threads      *)
(* interleave at the atomic loads and stores of need_check_namesrv_ready.  *)
(***************************************************************************)
EXTENDS Integers, Naturals, Sequences, FiniteSets, TLC

VARIABLES
    \* ---- ClientRequestProcessor fields ----
    need_check_namesrv_ready,   \* AtomicBool
    startup_time_millis,        \* u64, wall clock at construction
    \* ---- NamesrvConfig ----
    need_wait_for_service,
    wait_seconds_for_service,
    order_message_enable,
    \* ---- RouteInfoManager tables ----
    topic_queue_table,          \* topic -> sequence of QueueData (never empty)
    broker_addr_table,          \* broker group -> BrokerData
    cluster_addr_table,         \* cluster -> set of broker groups
    broker_live_table,          \* broker address -> last heartbeat millis
    filter_server_table,        \* broker address -> filter servers
    \* ---- KVConfigManager ----
    config_table,               \* namespace -> key -> value
    \* ---- environment ----
    now,                        \* wall clock, millis
    \* ---- one record per request handler ----
    pc,
    request,
    namesrv_ready,              \* local of lines 68-71
    topic_route_data,           \* local bound at line 92
    response,
    undisturbed,                \* no store write since the handler's request began
    \* ---- bounds of the exploration ----
    issued,
    writes,
    \* ---- util_all: the frame of one call of a utility function ----
    util

store == <<topic_queue_table, broker_addr_table, cluster_addr_table,
           broker_live_table, filter_server_table>>
config == <<need_wait_for_service, wait_seconds_for_service, order_message_enable>>
locals == <<pc, request, namesrv_ready, topic_route_data, response>>
vars == <<need_check_namesrv_ready, startup_time_millis, config, util, store,
          config_table, now, locals, undisturbed, issued, writes>>

-----------------------------------------------------------------------------
(* Bounds *)

MaxRequests == 2
MaxWrites == 2

Handlers == {"h1", "h2"}
Topics == {"orders", "pay"}
Brokers == {"b1", "b2"}
QueueNums == {0, 4}
ClockReadings == {2000, 12000}
\* a reading before the startup reading, reached only by a clock set back
SkewedReadings == {0}
WaitSecondsChoices == {10}
ScanTimeouts == {5000}

\* Option<T>: None, or Some(v)
None == <<>>
Some(v) == <<v>>
DefaultCluster == "c1"

\* A handler that has produced its result (or panicked) hands it back before
\* anything else is scheduled: handing back touches only the handler's own
\* locals, so it commutes with every other step and no interleaving is lost.
Completed(h) == pc[h] \in {"done", "panic_decode", "panic_overflow"}
NoneCompleted == \A h \in Handlers : ~Completed(h)

-----------------------------------------------------------------------------
(* Small helpers on maps and sequences *)

RECURSIVE SelectSeqOf(_, _)
SelectSeqOf(s, broker) ==
    IF s = <<>> THEN <<>>
    ELSE IF Head(s).broker_name = broker
         THEN SelectSeqOf(Tail(s), broker)
         ELSE <<Head(s)>> \o SelectSeqOf(Tail(s), broker)

HasBroker(s, broker) == \E i \in 1..Len(s) : s[i].broker_name = broker

MapRemove(f, k) == [x \in (DOMAIN f) \ {k} |-> f[x]]
MapPut(f, k, v) == [x \in (DOMAIN f) \cup {k} |-> IF x = k THEN v ELSE f[x]]
EmptyMap == [x \in {} |-> None]

-----------------------------------------------------------------------------
(* Topology store: RouteInfoManager *)

BrokerAddr(broker) == IF broker = "b1" THEN "10.0.0.1:10911" ELSE "10.0.0.2:10911"

\* the filter servers a broker reports when it registers
FilterServersOf(broker) == IF broker = "b1" THEN <<"10.0.0.1:30000">> ELSE <<>>

QueueData(broker, nums) ==
    [broker_name |-> broker, read_queue_nums |-> nums,
     write_queue_nums |-> nums, perm |-> 6]

BrokerData(cluster, broker) ==
    [cluster |-> cluster, broker_name |-> broker,
     broker_addrs |-> [id \in {0} |-> BrokerAddr(broker)]]

\* the topic configurations a broker can report: topic -> queue count
TopicConfigLists ==
    {[t \in {"orders"} |-> 4],
     [t \in {"orders", "pay"} |-> IF t = "orders" THEN 0 ELSE 4]}

\* the QueueData of one topic after `broker` reported `nums` queues for it:
\* updated in place when the broker already hosts the topic, appended otherwise
UpsertQueueData(s, broker, nums) ==
    IF HasBroker(s, broker)
    THEN [i \in 1..Len(s) |->
            IF s[i].broker_name = broker THEN QueueData(broker, nums) ELSE s[i]]
    ELSE Append(s, QueueData(broker, nums))

QueueDatasOf(table, topic) == IF topic \in DOMAIN table THEN table[topic] ELSE <<>>

\* reconcile the topic table against what the broker reports; a topic left
\* without QueueData is removed
ReconcileTopics(table, broker, topic_config) ==
    LET after(t) ==
            IF t \in DOMAIN topic_config
            THEN UpsertQueueData(QueueDatasOf(table, t), broker, topic_config[t])
            ELSE SelectSeqOf(QueueDatasOf(table, t), broker)
    IN  [t \in {x \in Topics : after(x) # <<>>} |-> after(t)]

register_broker(broker, topic_config) ==
    /\ NoneCompleted
    /\ writes < MaxWrites
    /\ writes' = writes + 1
    /\ cluster_addr_table' =
          MapPut(cluster_addr_table, DefaultCluster,
                 (IF DefaultCluster \in DOMAIN cluster_addr_table
                  THEN cluster_addr_table[DefaultCluster] ELSE {}) \cup {broker})
    /\ broker_addr_table' =
          MapPut(broker_addr_table, broker, BrokerData(DefaultCluster, broker))
    /\ broker_live_table' = MapPut(broker_live_table, BrokerAddr(broker), now)
    /\ filter_server_table' =
          IF FilterServersOf(broker) = <<>>
          THEN MapRemove(filter_server_table, BrokerAddr(broker))
          ELSE MapPut(filter_server_table, BrokerAddr(broker), FilterServersOf(broker))
    /\ topic_queue_table' = ReconcileTopics(topic_queue_table, broker, topic_config)
    /\ UNCHANGED <<need_check_namesrv_ready, startup_time_millis, config, util,
                   config_table, now, locals, issued>>
    /\ undisturbed' = [h \in Handlers |-> pc[h] = "idle"]

\* the tables with every broker of `gone` removed (cascading removal)
StoreWithout(gone) ==
    LET groups == IF DefaultCluster \in DOMAIN cluster_addr_table
                  THEN cluster_addr_table[DefaultCluster] \ gone ELSE {}
        topic_after(t) ==
            LET RECURSIVE strip(_)
                strip(s) == IF s = <<>> THEN <<>>
                            ELSE IF Head(s).broker_name \in gone
                                 THEN strip(Tail(s))
                                 ELSE <<Head(s)>> \o strip(Tail(s))
            IN  strip(QueueDatasOf(topic_queue_table, t))
    IN  [topics |-> [t \in {x \in Topics : topic_after(x) # <<>>} |-> topic_after(t)],
         brokers |-> [b \in (DOMAIN broker_addr_table) \ gone |-> broker_addr_table[b]],
         clusters |-> IF groups = {} THEN EmptyMap
                      ELSE [c \in {DefaultCluster} |-> groups],
         live |-> [a \in (DOMAIN broker_live_table) \ {BrokerAddr(b) : b \in gone}
                     |-> broker_live_table[a]],
         filters |-> [a \in (DOMAIN filter_server_table) \ {BrokerAddr(b) : b \in gone}
                        |-> filter_server_table[a]]]

RemoveBrokers(gone) ==
    LET after == StoreWithout(gone)
    IN  /\ topic_queue_table' = after.topics
        /\ broker_addr_table' = after.brokers
        /\ cluster_addr_table' = after.clusters
        /\ broker_live_table' = after.live
        /\ filter_server_table' = after.filters

unregister_broker(broker) ==
    /\ NoneCompleted
    /\ writes < MaxWrites
    /\ writes' = writes + 1
    /\ RemoveBrokers({broker})
    /\ UNCHANGED <<need_check_namesrv_ready, startup_time_millis, config, util,
                   config_table, now, locals, issued>>
    /\ undisturbed' = [h \in Handlers |-> pc[h] = "idle"]

delete_topic(topic) ==
    /\ NoneCompleted
    /\ writes < MaxWrites
    /\ writes' = writes + 1
    /\ topic_queue_table' = MapRemove(topic_queue_table, topic)
    /\ UNCHANGED <<broker_addr_table, cluster_addr_table, broker_live_table,
                   filter_server_table>>
    /\ UNCHANGED <<need_check_namesrv_ready, startup_time_millis, config, util,
                   config_table, now, locals, issued>>
    /\ undisturbed' = [h \in Handlers |-> pc[h] = "idle"]

\* the brokers whose last heartbeat is older than `timeout`
NotActiveBrokers(timeout) ==
    {b \in DOMAIN broker_addr_table :
        /\ BrokerAddr(b) \in DOMAIN broker_live_table
        /\ now - broker_live_table[BrokerAddr(b)] > timeout}

scan_not_active_broker(timeout) ==
    /\ NoneCompleted
    /\ writes < MaxWrites
    /\ NotActiveBrokers(timeout) # {}
    /\ writes' = writes + 1
    /\ RemoveBrokers(NotActiveBrokers(timeout))
    /\ UNCHANGED <<need_check_namesrv_ready, startup_time_millis, config, util,
                   config_table, now, locals, issued>>
    /\ undisturbed' = [h \in Handlers |-> pc[h] = "idle"]

\* mutant: a topic whose QueueData all have zero queues counts as absent
pickup_topic_route_data_SkipsEmptyQueues(topic) ==
    IF \/ topic \notin DOMAIN topic_queue_table
       \/ \A i \in 1..Len(topic_queue_table[topic]) :
             /\ topic_queue_table[topic][i].read_queue_nums = 0
             /\ topic_queue_table[topic][i].write_queue_nums = 0
    THEN None
    ELSE LET qds == topic_queue_table[topic]
             names == {qds[i].broker_name : i \in 1..Len(qds)} \cap DOMAIN broker_addr_table
             addrs == {BrokerAddr(b) : b \in names}
         IN  Some([order_topic_conf |-> None,
                   queue_datas |-> qds,
                   broker_datas |-> {broker_addr_table[b] : b \in names},
                   filter_server_table |->
                       [a \in addrs \cap DOMAIN filter_server_table
                          |-> filter_server_table[a]]])

\* read-only snapshot of one topic's route; None when the topic has no QueueData
pickup_topic_route_data(topic) ==
    IF topic \notin DOMAIN topic_queue_table
    THEN None
    ELSE LET qds == topic_queue_table[topic]
             names == {qds[i].broker_name : i \in 1..Len(qds)} \cap DOMAIN broker_addr_table
             addrs == {BrokerAddr(b) : b \in names}
         IN  Some([order_topic_conf |-> None,
                   queue_datas |-> qds,
                   broker_datas |-> {broker_addr_table[b] : b \in names},
                   filter_server_table |->
                       [a \in addrs \cap DOMAIN filter_server_table
                          |-> filter_server_table[a]]])

-----------------------------------------------------------------------------
(* Order-topic overlay: KVConfigManager *)

NAMESPACE_ORDER_TOPIC_CONFIG == "ORDER_TOPIC_CONFIG"
NAMESPACE_PROJECT_CONFIG == "PROJECT_CONFIG"
Namespaces == {NAMESPACE_ORDER_TOPIC_CONFIG, NAMESPACE_PROJECT_CONFIG}
OrderConfs == {"b1:4;b2:4"}
\* the entries written out of band: (namespace, key)
KvEntries == {<<NAMESPACE_ORDER_TOPIC_CONFIG, "orders">>,
              <<NAMESPACE_PROJECT_CONFIG, "pay">>}

get_kvconfig(table, namespace, key) ==
    IF namespace \in DOMAIN table /\ key \in DOMAIN table[namespace]
    THEN Some(table[namespace][key])
    ELSE None

put_kvconfig(namespace, key, value) ==
    /\ NoneCompleted
    /\ writes < MaxWrites
    /\ writes' = writes + 1
    /\ config_table' =
          MapPut(config_table, namespace,
                 MapPut(IF namespace \in DOMAIN config_table
                        THEN config_table[namespace] ELSE EmptyMap, key, value))
    /\ UNCHANGED <<need_check_namesrv_ready, startup_time_millis, config, util, store,
                   now, locals, undisturbed, issued>>

delete_kvconfig(namespace, key) ==
    /\ NoneCompleted
    /\ writes < MaxWrites
    /\ namespace \in DOMAIN config_table
    /\ key \in DOMAIN config_table[namespace]
    /\ writes' = writes + 1
    /\ config_table' =
          MapPut(config_table, namespace, MapRemove(config_table[namespace], key))
    /\ UNCHANGED <<need_check_namesrv_ready, startup_time_millis, config, util, store,
                   now, locals, undisturbed, issued>>

-----------------------------------------------------------------------------
(* Responses: RemotingCommand *)

NoResponse == [code |-> "", remark |-> <<>>, body |-> <<>>]

create_response_command_with_code(code) == [code |-> code, remark |-> <<>>, body |-> <<>>]
set_remark(command, remark) == [command EXCEPT !.remark = remark]
set_body(command, body) == [command EXCEPT !.body = body]

APPLY_TOPIC_URL == "https://rocketmq.apache.org/docs/bestPractice/06FAQ"
suggest_todo(url) == <<"\nSee ", url, " for further details.">>

\* mutant: the QueueData list is written in reverse order
encode_ReversesQueueDatas(route) ==
    <<"orderTopicConf", route.order_topic_conf,
      "queueDatas", [i \in 1..Len(route.queue_datas) |->
                        route.queue_datas[Len(route.queue_datas) + 1 - i]],
      "brokerDatas", route.broker_datas,
      "filterServerTable", route.filter_server_table>>

\* TopicRouteData::encode: the JSON object, field by field
encode(route) ==
    <<"orderTopicConf", route.order_topic_conf,
      "queueDatas", route.queue_datas,
      "brokerDatas", route.broker_datas,
      "filterServerTable", route.filter_server_table>>

-----------------------------------------------------------------------------
(* ClientRequestProcessor::get_route_info_by_topic *)

\* u64 arithmetic wraps modulo 2^64 when overflow checks are off.  TLC's
\* integers are 32 bits wide, so the modulus is scaled to 2^30; every clock
\* reading and warm-up window of the model is far below it, as the real ones
\* are far below 2^64.
U64_MODULUS == 1073741824

wrapping_sub(a, b) == (a - b) % U64_MODULUS

\* Duration::from_secs(wait_seconds_for_service as u64).as_millis() as u64
WaitMillis == wait_seconds_for_service * 1000

\* TimeUtils::get_current_millis() - self.startup_time_millis
ElapsedMillis(current_millis) == wrapping_sub(current_millis, startup_time_millis)

\* the subtraction overflows: a build with overflow checks panics here
SubtractionOverflows(current_millis) == current_millis < startup_time_millis

\* mutant: the elapsed time is not compared with the window
NamesrvReady_IgnoresWindow(flag, current_millis) == flag

\* let namesrv_ready = need_check_namesrv_ready.load() && elapsed >= window
NamesrvReady(flag, current_millis) ==
    flag /\ ElapsedMillis(current_millis) >= WaitMillis

\* mutant: the gate rejects without consulting need_wait_for_service
RejectsNotReady_IgnoresConfig(ready) == ~ready

\* if self.namesrv_config.need_wait_for_service && !namesrv_ready
RejectsNotReady(ready) == need_wait_for_service /\ ~ready

NotReadyResponse ==
    set_remark(create_response_command_with_code("SystemError"),
               <<"name remoting_server not ready">>)

TopicNotExistResponse(topic) ==
    set_remark(create_response_command_with_code("TopicNotExist"),
               <<"No topic route info in name remoting_server for the topic:", topic>>
                   \o suggest_todo(APPLY_TOPIC_URL))

\* mutant: the overlay is read under another namespace
WithOrderTopicConf_WrongNamespace(route, topic) ==
    IF order_message_enable
    THEN [route EXCEPT !.order_topic_conf =
              get_kvconfig(config_table, NAMESPACE_PROJECT_CONFIG, topic)]
    ELSE route

\* if order_message_enable { topic_route_data.order_topic_conf = get_kvconfig(..) }
WithOrderTopicConf(route, topic) ==
    IF order_message_enable
    THEN [route EXCEPT !.order_topic_conf =
              get_kvconfig(config_table, NAMESPACE_ORDER_TOPIC_CONFIG, topic)]
    ELSE route

\* mutant: the encoded route is not set as the body
SuccessResponse_NoBody(route) == create_response_command_with_code("Success")

SuccessResponse(route) ==
    set_body(create_response_command_with_code("Success"), encode(route))

\* mutant: the flag is stored only when it is already clear
NeedsClear_Inverted(flag) == ~flag

\* line 93: if self.need_check_namesrv_ready.load(Acquire)
NeedsClear(flag) == flag

\* mutant: the store sets the flag
ClearedFlag_Sets == TRUE

\* the value stored at line 95
ClearedFlag == FALSE

NoRequest == [topic |-> "", header_ok |-> TRUE, after_clear |-> FALSE]

\* the worker pool hands a request to the first free handler
HandlerOrder(h) == IF h = "h1" THEN 1 ELSE 2

\* process_request is entered with a request; lines 65-67 decode its header:
\* decode_command_custom_header(..).expect(..) panics on a malformed one.
\* after_clear records that the flag was already clear when the request came.
ReceiveRequest(h, topic, header_ok) ==
    /\ NoneCompleted
    /\ pc[h] = "idle"
    /\ \A g \in Handlers : HandlerOrder(g) < HandlerOrder(h) => pc[g] # "idle"
    /\ issued < MaxRequests
    /\ issued' = issued + 1
    /\ pc' = [pc EXCEPT ![h] = IF header_ok THEN "check_ready" ELSE "panic_decode"]
    /\ request' = [request EXCEPT
                     ![h] = [topic |-> topic, header_ok |-> header_ok,
                             after_clear |-> ~need_check_namesrv_ready]]
    /\ undisturbed' = [undisturbed EXCEPT ![h] = TRUE]
    /\ UNCHANGED <<need_check_namesrv_ready, startup_time_millis, config, util, store,
                   config_table, now, namesrv_ready, topic_route_data, response,
                   writes>>

\* lines 68-81: the readiness gate.  The flag is loaded once; the clock is
\* read and the subtraction evaluated only when the flag is set (&&).
CheckReady(h) ==
    /\ NoneCompleted
    /\ pc[h] = "check_ready"
    /\ LET ready == NamesrvReady(need_check_namesrv_ready, now)
       IN  /\ namesrv_ready' = [namesrv_ready EXCEPT ![h] = ready]
           /\ IF RejectsNotReady(ready)
              THEN /\ response' = [response EXCEPT ![h] = NotReadyResponse]
                   /\ pc' = [pc EXCEPT ![h] = "done"]
              ELSE /\ pc' = [pc EXCEPT ![h] = "pickup"]
                   /\ UNCHANGED response
    /\ UNCHANGED <<need_check_namesrv_ready, startup_time_millis, config, util, store,
                   config_table, now, request, topic_route_data, undisturbed,
                   issued, writes>>

\* line 69 in a build with overflow checks: the subtraction is evaluated (the
\* flag is set) with a clock reading below startup_time_millis, and panics
CheckReadyOverflow(h) ==
    /\ NoneCompleted
    /\ pc[h] = "check_ready"
    /\ need_check_namesrv_ready
    /\ SubtractionOverflows(now)
    /\ pc' = [pc EXCEPT ![h] = "panic_overflow"]
    /\ UNCHANGED <<need_check_namesrv_ready, startup_time_millis, config, util, store,
                   config_table, now, request, namesrv_ready, topic_route_data,
                   response, undisturbed, issued, writes>>

\* mutant: the lookup takes the topic's entry out of the table
PickupRoute_Removes(h) ==
    /\ NoneCompleted
    /\ pc[h] = "pickup"
    /\ LET picked == pickup_topic_route_data(request[h].topic)
       IN  IF picked = None
           THEN /\ response' = [response EXCEPT
                                  ![h] = TopicNotExistResponse(request[h].topic)]
                /\ pc' = [pc EXCEPT ![h] = "done"]
                /\ UNCHANGED <<topic_route_data, namesrv_ready>>
           ELSE /\ topic_route_data' = [topic_route_data EXCEPT ![h] = picked]
                /\ namesrv_ready' = [namesrv_ready EXCEPT ![h] = FALSE]
                /\ pc' = [pc EXCEPT ![h] = IF NeedsClear(need_check_namesrv_ready)
                                            THEN "store_flag" ELSE "order_conf"]
                /\ UNCHANGED response
    /\ topic_queue_table' = MapRemove(topic_queue_table, request[h].topic)
    /\ UNCHANGED <<need_check_namesrv_ready, startup_time_millis, config, util,
                   broker_addr_table, cluster_addr_table, broker_live_table,
                   filter_server_table, config_table, now, request, undisturbed,
                   issued, writes>>

\* lines 82-93: match pickup_topic_route_data(topic) and, when a route is
\* found, the load of the flag at line 93.  The lookup reads only the store
\* and the load only the flag, and the handler writes nothing between them,
\* so a step of another handler or of the registry that falls between the
\* two commutes with one of them: taking them together loses no outcome.
\* namesrv_ready is not read after line 72; it is dropped once a route is found.
PickupRoute(h) ==
    /\ NoneCompleted
    /\ pc[h] = "pickup"
    /\ LET picked == pickup_topic_route_data(request[h].topic)
       IN  IF picked = None
           THEN /\ response' = [response EXCEPT
                                  ![h] = TopicNotExistResponse(request[h].topic)]
                /\ pc' = [pc EXCEPT ![h] = "done"]
                /\ UNCHANGED <<topic_route_data, namesrv_ready>>
           ELSE /\ topic_route_data' = [topic_route_data EXCEPT ![h] = picked]
                /\ namesrv_ready' = [namesrv_ready EXCEPT ![h] = FALSE]
                /\ pc' = [pc EXCEPT ![h] = IF NeedsClear(need_check_namesrv_ready)
                                            THEN "store_flag" ELSE "order_conf"]
                /\ UNCHANGED response
    /\ UNCHANGED <<need_check_namesrv_ready, startup_time_millis, config, util, store,
                   config_table, now, request, undisturbed, issued, writes>>

\* lines 94-95: self.need_check_namesrv_ready.store(false, Release)
StoreFlag(h) ==
    /\ NoneCompleted
    /\ pc[h] = "store_flag"
    /\ need_check_namesrv_ready' = ClearedFlag
    /\ pc' = [pc EXCEPT ![h] = "order_conf"]
    /\ UNCHANGED <<startup_time_millis, config, util, store, config_table, now,
                   request, namesrv_ready, topic_route_data, response,
                   undisturbed, issued, writes>>

\* lines 97-117: attach the order-topic configuration, encode, respond
RespondSuccess(h) ==
    /\ NoneCompleted
    /\ pc[h] = "order_conf"
    /\ LET route == WithOrderTopicConf(topic_route_data[h][1], request[h].topic)
       IN  response' = [response EXCEPT ![h] = SuccessResponse(route)]
    /\ topic_route_data' = [topic_route_data EXCEPT ![h] = None]
    /\ pc' = [pc EXCEPT ![h] = "done"]
    /\ UNCHANGED <<need_check_namesrv_ready, startup_time_millis, config, util, store,
                   config_table, now, request, namesrv_ready, undisturbed,
                   issued, writes>>

\* line 130: Some(response) is handed back; the handler is free again.  A
\* handler that panicked unwinds and is free again as well.
Return(h) ==
    /\ Completed(h)
    /\ pc' = [pc EXCEPT ![h] = "idle"]
    /\ request' = [request EXCEPT ![h] = NoRequest]
    /\ namesrv_ready' = [namesrv_ready EXCEPT ![h] = FALSE]
    /\ topic_route_data' = [topic_route_data EXCEPT ![h] = None]
    /\ response' = [response EXCEPT ![h] = NoResponse]
    /\ undisturbed' = [undisturbed EXCEPT ![h] = TRUE]
    /\ UNCHANGED <<need_check_namesrv_ready, startup_time_millis, config, util, store,
                   config_table, now, issued, writes>>

-----------------------------------------------------------------------------
(* The wall clock *)

ClockAdvance(t) ==
    /\ NoneCompleted
    /\ t > now
    /\ now' = t
    /\ UNCHANGED <<need_check_namesrv_ready, startup_time_millis, config, util, store,
                   config_table, locals, undisturbed, issued, writes>>

\* the wall clock is set back (NTP step, operator)
ClockStepBack(t) ==
    /\ NoneCompleted
    /\ t < now
    /\ now' = t
    /\ UNCHANGED <<need_check_namesrv_ready, startup_time_millis, config, util, store,
                   config_table, locals, undisturbed, issued, writes>>

-----------------------------------------------------------------------------
(* util_all: no utility function is being called *)

NoCall == [fn |-> "", when |-> <<>>, now_hour |-> 0, src |-> <<>>,
           hex_string |-> <<>>, ret |-> <<>>]

-----------------------------------------------------------------------------
(* util_all: hexadecimal conversion.  A String is the sequence of its chars, *)
(* a char a one-character string, a byte a number in 0..255.                 *)

\* mutant: the digits above nine are written in lower case
HEX_ARRAY_Lowercase ==
    <<"0", "1", "2", "3", "4", "5", "6", "7", "8", "9", "a", "b", "c", "d", "e", "f">>

HEX_ARRAY ==
    <<"0", "1", "2", "3", "4", "5", "6", "7", "8", "9", "A", "B", "C", "D", "E", "F">>

\* for &byte in src { push(HEX_ARRAY[v >> 4]); push(HEX_ARRAY[v & 0x0F]) }
RECURSIVE bytes_to_string(_)
bytes_to_string(src) ==
    IF src = <<>>
    THEN <<>>
    ELSE <<HEX_ARRAY[(Head(src) \div 16) + 1], HEX_ARRAY[(Head(src) % 16) + 1]>>
             \o bytes_to_string(Tail(src))

LowerCaseLetters == <<"a", "b", "c", "d", "e", "f", "g">>
UpperCaseLetters == <<"A", "B", "C", "D", "E", "F", "G">>

\* String::to_uppercase, on the ASCII letters of the inputs
to_uppercase(s) ==
    [i \in 1..Len(s) |->
        IF \E k \in 1..Len(LowerCaseLetters) : LowerCaseLetters[k] = s[i]
        THEN UpperCaseLetters[CHOOSE k \in 1..Len(LowerCaseLetters) :
                                  LowerCaseLetters[k] = s[i]]
        ELSE s[i]]

\* mutant: the position found is counted from one
char_to_byte_FromOne(c) ==
    IF \E k \in 1..Len(HEX_ARRAY) : HEX_ARRAY[k] = c
    THEN CHOOSE k \in 1..Len(HEX_ARRAY) : HEX_ARRAY[k] = c
    ELSE 0

\* "0123456789ABCDEF".find(c).unwrap_or(0) as u8
char_to_byte(c) ==
    IF \E k \in 1..Len(HEX_ARRAY) : HEX_ARRAY[k] = c
    THEN (CHOOSE k \in 1..Len(HEX_ARRAY) : HEX_ARRAY[k] = c) - 1
    ELSE 0

\* chars().nth(pos): None past the end
nth(chars, pos) == IF pos + 1 <= Len(chars) THEN Some(chars[pos + 1]) ELSE None

\* the loop of string_to_bytes from index i on; `?` returns None from the
\* function.  The operands of | have no bit in common, so | is their sum; the
\* shift is on u8.
RECURSIVE StringToBytesFrom(_, _, _)
StringToBytesFrom(chars, i, length) ==
    IF i >= length
    THEN Some(<<>>)
    ELSE LET high == nth(chars, i * 2)
             low == nth(chars, i * 2 + 1)
         IN  IF high = None \/ low = None
             THEN None
             ELSE LET byte == ((char_to_byte(high[1]) * 16) % 256) + char_to_byte(low[1])
                      rest == StringToBytesFrom(chars, i + 1, length)
                  IN  IF rest = None THEN None ELSE Some(<<byte>> \o rest[1])

\* hex_string.len() counts bytes; the inputs are ASCII, one byte per char
string_to_bytes(hex_string) ==
    IF hex_string = <<>>
    THEN None
    ELSE LET upper == to_uppercase(hex_string)
         IN  StringToBytesFrom(upper, 0, Len(upper) \div 2)

-----------------------------------------------------------------------------
(* util_all: is_it_time_to_do *)

\* str::split(";"): the pieces between separators; never an empty list
RECURSIVE split(_, _)
split(s, separator) ==
    IF \A i \in 1..Len(s) : s[i] # separator
    THEN <<s>>
    ELSE LET k == CHOOSE i \in 1..Len(s) :
                      s[i] = separator /\ \A j \in 1..(i - 1) : s[j] # separator
         IN  <<SubSeq(s, 1, k - 1)>> \o split(SubSeq(s, k + 1, Len(s)), separator)

DecimalDigits == <<"0", "1", "2", "3", "4", "5", "6", "7", "8", "9">>

IsDecimalDigit(c) == \E k \in 1..Len(DecimalDigits) : DecimalDigits[k] = c
DigitValue(c) == (CHOOSE k \in 1..Len(DecimalDigits) : DecimalDigits[k] = c) - 1

\* the value of a run of decimal digits
RECURSIVE DigitsValue(_)
DigitsValue(digits) ==
    IF digits = <<>>
    THEN 0
    ELSE DigitsValue(SubSeq(digits, 1, Len(digits) - 1)) * 10
             + DigitValue(digits[Len(digits)])

\* str::parse::<i32>(): an optional sign, then one or more decimal digits and
\* nothing else.  The inputs are too short to leave the range of i32.
parse(s) ==
    LET signed == s # <<>> /\ s[1] \in {"+", "-"}
        digits == IF signed THEN Tail(s) ELSE s
    IN  IF digits = <<>> \/ \E i \in 1..Len(digits) : ~IsDecimalDigit(digits[i])
        THEN None
        ELSE Some(IF signed /\ s[1] = "-"
                  THEN 0 - DigitsValue(digits) ELSE DigitsValue(digits))

\* Option::unwrap_or
unwrap_or(option, default) == IF option = None THEN default ELSE option[1]

\* now_hour is Local::now().hour(); the loop returns at the first entry that
\* parses to it
is_it_time_to_do(when, now_hour) ==
    LET hours == split(when, ";")
    IN  /\ hours # <<>>
        /\ \E i \in 1..Len(hours) : unwrap_or(parse(hours[i]), 0) = now_hour

-----------------------------------------------------------------------------
(* ClientRequestProcessor::new, on an empty registry *)

StartupReadings == {2000}

Init ==
    /\ need_check_namesrv_ready = TRUE
    /\ now \in StartupReadings
    /\ startup_time_millis = now
    /\ need_wait_for_service \in BOOLEAN
    /\ wait_seconds_for_service \in WaitSecondsChoices
    /\ order_message_enable \in BOOLEAN
    /\ topic_queue_table = EmptyMap
    /\ broker_addr_table = EmptyMap
    /\ cluster_addr_table = EmptyMap
    /\ broker_live_table = EmptyMap
    /\ filter_server_table = EmptyMap
    /\ config_table = EmptyMap
    /\ pc = [h \in Handlers |-> "idle"]
    /\ request = [h \in Handlers |-> NoRequest]
    /\ namesrv_ready = [h \in Handlers |-> FALSE]
    /\ topic_route_data = [h \in Handlers |-> None]
    /\ response = [h \in Handlers |-> NoResponse]
    /\ undisturbed = [h \in Handlers |-> TRUE]
    /\ issued = 0
    /\ writes = 0
    /\ util = NoCall

\* the registry and its handlers, on a wall clock that only advances
Next ==
    \/ \E b \in Brokers, c \in TopicConfigLists : register_broker(b, c)
    \/ \E b \in Brokers : unregister_broker(b)
    \/ \E t \in Topics : delete_topic(t)
    \/ \E timeout \in ScanTimeouts : scan_not_active_broker(timeout)
    \/ \E e \in KvEntries, v \in OrderConfs : put_kvconfig(e[1], e[2], v)
    \/ \E e \in KvEntries : delete_kvconfig(e[1], e[2])
    \/ \E t \in ClockReadings : ClockAdvance(t)
    \/ \E h \in Handlers, t \in Topics, ok \in BOOLEAN : ReceiveRequest(h, t, ok)
    \/ \E h \in Handlers : CheckReady(h)
    \/ \E h \in Handlers : PickupRoute(h)
    \/ \E h \in Handlers : StoreFlag(h)
    \/ \E h \in Handlers : RespondSuccess(h)
    \/ \E h \in Handlers : Return(h)

Spec == Init /\ [][Next]_vars

\* the same, on a wall clock that can also be set back
NextSkewed ==
    \/ Next
    \/ \E t \in SkewedReadings \cup ClockReadings : ClockStepBack(t)
    \/ \E h \in Handlers : CheckReadyOverflow(h)

SpecSkewed == Init /\ [][NextSkewed]_vars

-----------------------------------------------------------------------------
(* Calls of the utility functions, next to an idle registry *)

MaxWhenLen == 3
MaxBytesLen == 3
MaxHexLen == 4

WhenChars == {"0", "1", "2", ";", "x", "+"}
Hours == 0..23
ByteChoices == {0, 10, 65, 66, 67, 171, 255}
HexStringChars == {"0", "1", "4", "A", "F", "a", "g"}

SeqsUpTo(S, n) == UNION {[1..k -> S] : k \in 0..n}

WhenStrings == SeqsUpTo(WhenChars, MaxWhenLen)
ByteSlices == SeqsUpTo(ByteChoices, MaxBytesLen)
HexStrings == SeqsUpTo(HexStringChars, MaxHexLen)

registry == <<need_check_namesrv_ready, startup_time_millis, config, store,
              config_table, now, locals, undisturbed, issued, writes>>

CallIsItTimeToDo ==
    /\ util = NoCall
    /\ \E when \in WhenStrings, now_hour \in Hours :
          util' = [NoCall EXCEPT !.fn = "is_it_time_to_do", !.when = when,
                                 !.now_hour = now_hour,
                                 !.ret = <<is_it_time_to_do(when, now_hour)>>]
    /\ UNCHANGED registry

CallBytesToString ==
    /\ util = NoCall
    /\ \E src \in ByteSlices :
          util' = [NoCall EXCEPT !.fn = "bytes_to_string", !.src = src,
                                 !.ret = <<bytes_to_string(src)>>]
    /\ UNCHANGED registry

CallStringToBytes ==
    /\ util = NoCall
    /\ \E hex_string \in HexStrings :
          util' = [NoCall EXCEPT !.fn = "string_to_bytes",
                                 !.hex_string = hex_string,
                                 !.ret = <<string_to_bytes(hex_string)>>]
    /\ UNCHANGED registry

\* the call returns to its caller
UtilReturn ==
    /\ util # NoCall
    /\ util' = NoCall
    /\ UNCHANGED registry

NextUtil ==
    \/ CallIsItTimeToDo
    \/ CallBytesToString
    \/ CallStringToBytes
    \/ UtilReturn

SpecUtil == Init /\ [][NextUtil]_vars

-----------------------------------------------------------------------------
(* The three outcomes of a query *)

IsNotReady(r) ==
    /\ r.code = "SystemError"
    /\ r.remark = <<"name remoting_server not ready">>
    /\ r.body = <<>>

IsTopicNotFound(r, topic) ==
    /\ r.code = "TopicNotExist"
    /\ Len(r.remark) >= 2
    /\ r.remark[2] = topic
    /\ \E i \in 1..Len(r.remark) : r.remark[i] = APPLY_TOPIC_URL
    /\ r.body = <<>>

IsFound(r) ==
    /\ r.code = "Success"
    /\ r.body # <<>>

\* the handler takes the step that evaluates the gate
GateStep(h) == pc[h] = "check_ready" /\ pc'[h] # "check_ready"

\* the handler takes the step that completes its query
Completes(h) == pc[h] # "done" /\ pc'[h] = "done"

\* time since construction, on a clock that has not been set back
WithinWindow == startup_time_millis <= now /\ now - startup_time_millis < WaitMillis
WindowPassed == startup_time_millis <= now /\ now - startup_time_millis >= WaitMillis

Hosted(topic) == topic \in DOMAIN topic_queue_table

-----------------------------------------------------------------------------
(* Claims *)

\* C1: once the readiness flag has been cleared, no later query returns
\* NotReady: a query that arrives when the flag is already clear never
\* completes with the not-ready response.
C1_NoNotReadyOnceCleared ==
    [][\A h \in Handlers :
          (GateStep(h) /\ request[h].after_clear)
              => ~(pc'[h] = "done" /\ IsNotReady(response'[h]))]_vars

\* C2: with warm-up gating enabled, a query whose gate is evaluated when the
\* time since construction is at least the warm-up window never returns
\* NotReady, whatever was answered before.
C2_ReadyOnceWindowPassed ==
    [][\A h \in Handlers :
          (GateStep(h) /\ need_wait_for_service /\ WindowPassed)
              => ~(pc'[h] = "done" /\ IsNotReady(response'[h]))]_vars

\* C3: with warm-up gating enabled and the flag still set, a query whose gate
\* is evaluated before the warm-up window has passed returns NotReady, whether
\* or not its topic is registered.
C3_NotReadyDuringWarmUp ==
    [][\A h \in Handlers :
          (GateStep(h) /\ need_wait_for_service /\ need_check_namesrv_ready
             /\ WithinWindow)
              => (pc'[h] = "done" /\ IsNotReady(response'[h]))]_vars

\* a query for a registered topic was answered NotReady during the warm-up
C3_Witness ==
    \E h \in Handlers :
        /\ pc[h] = "done"
        /\ IsNotReady(response[h])
        /\ need_wait_for_service
        /\ need_check_namesrv_ready
        /\ WithinWindow
        /\ Hosted(request[h].topic)

\* C4 as claimed: a query that ran with the flag set and the window passed
\* (namesrv_ready was true) leaves the flag clear when it completes, with
\* Found and with TopicNotFound alike.
C4_ClearsWhateverOutcome ==
    \A h \in Handlers :
        (/\ pc[h] = "done"
         /\ \/ response[h].code = "Success"
            \/ response[h].code = "TopicNotExist" /\ namesrv_ready[h] /\ WindowPassed)
            => ~need_check_namesrv_ready

\* C4 as amended: a query clears the flag exactly on the Found path: when it
\* completes with Found the flag is clear, and neither the gate nor a lookup
\* (so no query that ends NotReady or TopicNotFound) changes the flag.
C4_ClearsOnlyOnFound ==
    [][\A h \in Handlers :
          /\ (Completes(h) /\ response'[h].code = "Success")
                => ~need_check_namesrv_ready'
          /\ (pc[h] \in {"check_ready", "pickup"} /\ pc'[h] # pc[h])
                => need_check_namesrv_ready' = need_check_namesrv_ready]_vars

\* with gating enabled a query passed the gate (flag set, window passed),
\* found its topic and left the flag clear
C4_Witness ==
    \E h \in Handlers :
        /\ pc[h] = "done"
        /\ IsFound(response[h])
        /\ need_wait_for_service
        /\ WindowPassed
        /\ ~need_check_namesrv_ready

\* C5 as claimed (its first half): a query for a topic that was registered
\* before the query began, with no write to the store since, returns Found
\* carrying the topic's QueueData.
C5_FoundAfterRegistration ==
    \A h \in Handlers :
        (pc[h] = "done" /\ undisturbed[h] /\ Hosted(request[h].topic))
            => /\ IsFound(response[h])
               /\ response[h].body[4] = topic_queue_table[request[h].topic]

\* C5 as amended: a query that began after the last write to the store and is
\* not answered NotReady returns Found carrying the topic's QueueData when the
\* topic is registered, and TopicNotFound when it is not.
C5_ConsistentUnlessNotReady ==
    \A h \in Handlers :
        (pc[h] = "done" /\ undisturbed[h] /\ ~IsNotReady(response[h]))
            => IF Hosted(request[h].topic)
               THEN /\ IsFound(response[h])
                    /\ response[h].body[4] = topic_queue_table[request[h].topic]
               ELSE IsTopicNotFound(response[h], request[h].topic)

\* a query that began after a registration returned the registered QueueData
C5_Witness ==
    \E h \in Handlers :
        /\ pc[h] = "done"
        /\ undisturbed[h]
        /\ Hosted(request[h].topic)
        /\ IsFound(response[h])
        /\ response[h].body[4] = topic_queue_table[request[h].topic]

\* C6: every query yields exactly one of NotReady, TopicNotFound and Found,
\* and a query for a topic absent from the store is not answered NotReady
\* once the gate is satisfied (the flag is clear or the window has passed).
C6_DistinctOutcomes ==
    [][\A h \in Handlers :
          /\ Completes(h)
                => LET r == response'[h]
                       n == IF IsNotReady(r) THEN 1 ELSE 0
                       t == IF IsTopicNotFound(r, request[h].topic) THEN 1 ELSE 0
                       f == IF IsFound(r) THEN 1 ELSE 0
                   IN  n + t + f = 1
          /\ (/\ GateStep(h)
              /\ ~need_check_namesrv_ready \/ WindowPassed
              /\ ~Hosted(request[h].topic))
                => ~(pc'[h] = "done" /\ IsNotReady(response'[h]))]_vars

\* C7: a request whose header cannot be decoded is answered with a response
\* and does not panic.
C7_MalformedAnswered ==
    \A h \in Handlers :
        (pc[h] # "idle" /\ ~request[h].header_ok)
            => /\ pc[h] # "panic_decode"
               /\ Completed(h) => response[h] # NoResponse

\* C8: the flag starts set, only ever goes from set to clear, and every
\* handler that stores to it leaves it clear, also when another handler has
\* stored in between.
C8_OneWayLatch ==
    /\ need_check_namesrv_ready = TRUE
    /\ [][/\ need_check_namesrv_ready' => need_check_namesrv_ready
          /\ \A h \in Handlers :
                (pc[h] = "store_flag" /\ pc'[h] # "store_flag")
                    => ~need_check_namesrv_ready']_vars

\* two handlers loaded the flag while it was set; one has stored, the other
\* is about to store again
C8_Witness ==
    \E h, g \in Handlers :
        /\ h # g
        /\ pc[h] = "order_conf"
        /\ pc[g] = "store_flag"
        /\ ~need_check_namesrv_ready

\* C9: a Found response carries as order-topic annotation the overlay's entry
\* for (ORDER_TOPIC_CONFIG, topic) at the time it is built when
\* order_message_enable is set, absent when there is no entry; otherwise the
\* annotation pickup_topic_route_data produced.
C9_OrderTopicAnnotation ==
    [][\A h \in Handlers :
          (pc[h] = "order_conf" /\ pc'[h] = "done")
              => /\ IsFound(response'[h])
                 /\ response'[h].body[2] =
                      IF order_message_enable
                      THEN IF /\ NAMESPACE_ORDER_TOPIC_CONFIG \in DOMAIN config_table
                              /\ request[h].topic \in
                                    DOMAIN config_table[NAMESPACE_ORDER_TOPIC_CONFIG]
                           THEN Some(config_table[NAMESPACE_ORDER_TOPIC_CONFIG]
                                                 [request[h].topic])
                           ELSE None
                      ELSE topic_route_data[h][1].order_topic_conf]_vars

\* a Found response carrying the overlay's entry
C9_Witness ==
    \E h \in Handlers :
        /\ pc[h] = "done"
        /\ IsFound(response[h])
        /\ order_message_enable
        /\ response[h].body[2] # None

\* C10: no step of a query changes the topology store, the order-topic
\* overlay, the configuration or the startup time.
C10_QueryReadOnly ==
    [][(\E h \in Handlers : pc'[h] # pc[h])
          => UNCHANGED <<store, config_table, config, startup_time_millis>>]_vars

\* a query completed with Found on a populated store and overlay
C10_Witness ==
    \E h \in Handlers :
        /\ pc[h] = "done"
        /\ IsFound(response[h])
        /\ Hosted(request[h].topic)
        /\ config_table # EmptyMap

\* C11: once the gate lets a query through, the lookup alone decides: when
\* the store holds QueueData for the topic (whatever its queue counts) the
\* query goes on to complete with Found, and it completes with TopicNotFound
\* exactly when pickup_topic_route_data yields None.
C11_LookupDecides ==
    [][\A h \in Handlers :
          /\ (pc[h] = "pickup" /\ pc'[h] # "pickup")
                => IF Hosted(request[h].topic)
                   THEN /\ pc'[h] \in {"store_flag", "order_conf"}
                        /\ topic_route_data'[h] # None
                   ELSE /\ pc'[h] = "done"
                        /\ IsTopicNotFound(response'[h], request[h].topic)
          /\ (pc[h] = "pickup" /\ pc'[h] # "pickup")
                => (pickup_topic_route_data(request[h].topic) = None
                      <=> (pc'[h] = "done" /\ response'[h].code = "TopicNotExist"))
          /\ (pc[h] = "store_flag" /\ pc'[h] # "store_flag") => pc'[h] = "order_conf"
          /\ (pc[h] = "order_conf" /\ pc'[h] # "order_conf")
                => (pc'[h] = "done" /\ IsFound(response'[h]))]_vars

\* a query for a topic whose every QueueData has zero read and zero write
\* queues completed with Found
C11_Witness ==
    \E h \in Handlers :
        /\ pc[h] = "done"
        /\ IsFound(response[h])
        /\ Len(response[h].body[4]) > 0
        /\ \A i \in 1..Len(response[h].body[4]) :
              /\ response[h].body[4][i].read_queue_nums = 0
              /\ response[h].body[4][i].write_queue_nums = 0

\* C12: the Found payload is the store's snapshot, passed through untouched
\* except for the order-topic annotation: the handler keeps what
\* pickup_topic_route_data returned, and the response carries its QueueData
\* list entry for entry in the same order, its BrokerData and its
\* filter-server map.
C12_SnapshotPassedThrough ==
    [][\A h \in Handlers :
          /\ (pc[h] = "pickup" /\ pc'[h] \in {"store_flag", "order_conf"})
                => topic_route_data'[h] = pickup_topic_route_data(request[h].topic)
          /\ (pc[h] = "store_flag" /\ pc'[h] # "store_flag")
                => topic_route_data'[h] = topic_route_data[h]
          /\ (pc[h] = "order_conf" /\ pc'[h] = "done")
                => LET snapshot == topic_route_data[h][1]
                       body == response'[h].body
                   IN  /\ Len(body[4]) = Len(snapshot.queue_datas)
                       /\ \A i \in 1..Len(body[4]) : body[4][i] = snapshot.queue_datas[i]
                       /\ body[6] = snapshot.broker_datas
                       /\ body[8] = snapshot.filter_server_table]_vars

\* a Found response whose QueueData list is in insertion order (b2 registered
\* before b1), not in broker-name order
C12_Witness ==
    \E h \in Handlers :
        /\ pc[h] = "done"
        /\ IsFound(response[h])
        /\ Len(response[h].body[4]) = 2
        /\ response[h].body[4][1].broker_name = "b2"
        /\ response[h].body[4][2].broker_name = "b1"
        /\ response[h].body[8] # EmptyMap

\* C15: with need_wait_for_service false no query is answered NotReady,
\* whatever the clock reads and whether the flag is set or clear: the gate
\* never ends the query with a response, and every response a query returns
\* is TopicNotFound when the lookup finds no QueueData and Found otherwise.
C15_NoGateWhenDisabled ==
    [][\A h \in Handlers :
          ~need_wait_for_service
             => /\ GateStep(h) => pc'[h] # "done"
                /\ Completes(h)
                      => /\ ~IsNotReady(response'[h])
                         /\ \/ IsFound(response'[h])
                            \/ IsTopicNotFound(response'[h], request[h].topic)
                /\ (pc[h] = "pickup" /\ pc'[h] # "pickup")
                      => IF Hosted(request[h].topic)
                         THEN pc'[h] \in {"store_flag", "order_conf"}
                         ELSE IsTopicNotFound(response'[h], request[h].topic)]_vars

\* with gating disabled a query was answered Found before the warm-up window
\* had passed
C15_Witness ==
    \E h \in Handlers :
        /\ pc[h] = "done"
        /\ ~need_wait_for_service
        /\ WithinWindow
        /\ IsFound(response[h])
        /\ ~request[h].after_clear

\* C16: the subtraction of the gate never underflows or wraps: whatever the
\* clock reads, a query that evaluates it does not abort, and with a reading
\* below startup_time_millis the gate does not find the window satisfied.
C16_NoUnderflow ==
    [][\A h \in Handlers :
          (GateStep(h) /\ need_check_namesrv_ready)
              => /\ pc'[h] # "panic_overflow"
                 /\ now < startup_time_millis => ~namesrv_ready'[h]]_vars

\* the hours a `when` string lists: its ';'-separated entries that are
\* decimal numbers
ListedHours(when) ==
    LET entries == split(when, ";")
    IN  {DigitsValue(entries[i]) :
            i \in {j \in 1..Len(entries) :
                      /\ entries[j] # <<>>
                      /\ \A k \in 1..Len(entries[j]) : IsDecimalDigit(entries[j][k])}}

\* C13: is_it_time_to_do(when) is true exactly when the current hour is one
\* of the hours `when` lists, for every `when` (empty entries and entries that
\* are not numbers included) and every hour.
C13_TrueExactlyForListedHours ==
    util.fn = "is_it_time_to_do"
        => (util.ret[1] <=> util.now_hour \in ListedHours(util.when))

\* the upper-case hexadecimal digit of a nibble
UpperHexDigit(nibble) ==
    IF nibble < 10
    THEN DecimalDigits[nibble + 1]
    ELSE UpperCaseLetters[nibble - 9]

\* C14: bytes_to_string(src) has exactly 2 * len(src) characters, and its
\* characters 2i and 2i+1 (counted from zero) are the upper-case hexadecimal
\* digits of the high and the low nibble of src[i]; the empty sequence gives
\* the empty string.
C14_TwoUpperHexDigitsPerByte ==
    util.fn = "bytes_to_string"
        => LET hex == util.ret[1]
           IN  /\ Len(hex) = 2 * Len(util.src)
               /\ \A i \in 1..Len(util.src) :
                     /\ hex[2 * i - 1] = UpperHexDigit(util.src[i] \div 16)
                     /\ hex[2 * i] = UpperHexDigit(util.src[i] % 16)
               /\ util.src = <<>> => hex = <<>>

\* [0x41, 0x42, 0x43] was converted to "414243"
C14_Witness ==
    /\ util.fn = "bytes_to_string"
    /\ util.src = <<65, 66, 67>>
    /\ util.ret[1] = <<"4", "1", "4", "2", "4", "3">>

\* s is a non-empty string of even length over 0-9A-F
IsUpperHexPairs(s) ==
    /\ s # <<>>
    /\ Len(s) % 2 = 0
    /\ \A i \in 1..Len(s) : \E n \in 0..15 : s[i] = UpperHexDigit(n)

\* C17: hex round trip: string_to_bytes(bytes_to_string(b)) = Some(b) for
\* every non-empty b; string_to_bytes("") is None; and
\* bytes_to_string(string_to_bytes(s)) = s for every non-empty string s of
\* even length over 0-9A-F.
C17_HexRoundTrip ==
    /\ (util.fn = "bytes_to_string" /\ util.src # <<>>)
          => string_to_bytes(util.ret[1]) = Some(util.src)
    /\ (util.fn = "string_to_bytes" /\ util.hex_string = <<>>)
          => util.ret[1] = None
    /\ (util.fn = "string_to_bytes" /\ IsUpperHexPairs(util.hex_string))
          => /\ util.ret[1] # None
             /\ bytes_to_string(util.ret[1][1]) = util.hex_string

\* "41AF" was converted to the bytes [0x41, 0xAF]
C17_Witness ==
    /\ util.fn = "string_to_bytes"
    /\ util.hex_string = <<"4", "1", "A", "F">>
    /\ util.ret[1] = Some(<<65, 175>>)

====
